---- MODULE Spec2Model ----
(***************************************************************************)
(* Model of src/optional.h: template <typename T> class Optional, a box    *)
(* that keeps at most one T in inline storage (data_), a presence flag     *)
(* (is_initialized_) and a typed pointer into the storage (value_ptr_).    *)
(*                                                                         *)
(* T is a template parameter.  It is modelled as a value type whose copy   *)
(* yields an equal value, whose move leaves the source either unchanged or *)
(* in a valid but unspecified state, and whose copy/move constructors and  *)
(* assignment operators may throw.  T's destructor does not throw.         *)
(***************************************************************************)
EXTENDS Integers, FiniteSets, Sequences, TLC

\* ---- bounds ----
NumBoxes == 2
MaxVal == 2
MaxEvents == 2
MaxResetRun == 2

\* ---- value domains ----
Boxes == 1..NumBoxes

\* State of a T that was moved from, or that an assignment which threw left
\* behind: valid but unspecified.
Unspecified == 0

\* The values a caller passes in.
Values == 1..MaxVal

\* Content of data_ while it holds no live T (raw bytes).
NoT == -1

\* nullptr; a non-null T* is the number of the box whose data_ it points into.
Null == 0

\* How T's operation behaves in one call: whether it throws, and what it
\* leaves in the object it moved from / failed to assign to.
TBehaviours == [throws : BOOLEAN, residue : {"kept", "unspecified"}]

\* A construction from a T the box does not own: the residue is not observed.
ConstructBehaviours == {t \in TBehaviours : t.residue = "kept"}

\* A copy (or a move from a T the box does not own) into a live T: the
\* residue is what a throwing assignment leaves in the target.
AssignBehaviours == {t \in TBehaviours : t.throws \/ t.residue = "kept"}

Residue(t, v) == IF t.residue = "kept" THEN v ELSE Unspecified

\* Memory of a box that does not exist (before construction / after release):
\* the default member initialisers' values, raw storage.
RawBox ==
  [status |-> "absent", is_initialized_ |-> FALSE, value_ptr_ |-> Null,
   data_ |-> NoT, live |-> 0]

VARIABLES box, constructed, destroyed, last

vars == <<box, constructed, destroyed, last>>

\* The memory an operation works on, with what the call raised and returned.
World ==
  [box |-> box, constructed |-> constructed, destroyed |-> destroyed,
   raised |-> "none", result |-> NoT, has |-> FALSE, ptr |-> Null]

\* ---- primitive steps on storage ----

\* new (&data_[0]) T(v): one T starts living in box b's storage.
PlacementNew(w, b, v) ==
  [w EXCEPT !.box[b].data_ = v, !.box[b].live = @ + 1, !.constructed = @ + 1]

\* p->~T(): the T that p points at stops living.
DestroyT(w, p) ==
  [w EXCEPT !.box[p].data_ = NoT, !.box[p].live = @ - 1, !.destroyed = @ + 1]

\* *p = v through T's own assignment operator.
AssignT(w, p, v) == [w EXCEPT !.box[p].data_ = v]

\* T's constructor or assignment operator threw.
Throw(w) == [w EXCEPT !.raised = "T"]

\* ---- constructors ----

OpCtorDefault(w, b) ==
  [w EXCEPT !.box[b] = [RawBox EXCEPT !.status = "alive"]]

\* Members are initialised in declaration order: data_, is_initialized_,
\* value_ptr_.  When T's constructor throws the box never starts to exist
\* (its destructor will not run); the flag written before the throw is kept
\* in the record, value_ptr_ was never written.
CtorFromT(w, b, present, v, t) ==
  LET w1 == [w EXCEPT !.box[b] = [RawBox EXCEPT !.is_initialized_ = present]]
  IN  IF ~present
      THEN [w1 EXCEPT !.box[b].status = "alive"]
      ELSE IF t.throws
           THEN Throw([w1 EXCEPT !.box[b].status = "failed"])
           ELSE [PlacementNew(w1, b, v) EXCEPT
                   !.box[b].value_ptr_ = b, !.box[b].status = "alive"]

OpCtorCopyValue(w, b, v, t) == CtorFromT(w, b, TRUE, v, t)

\* Variant of OpCtorMoveValue: is_initialized_ is initialised to false and
\* no T is constructed.
OpCtorMoveValue_Empty(w, b, v, t) == CtorFromT(w, b, FALSE, v, t)

OpCtorMoveValue(w, b, v, t) == CtorFromT(w, b, TRUE, v, t)

\* Variant of OpValue: the presence check is missing.
OpValue_Unchecked(w, b) ==
  LET p == w.box[b].value_ptr_
  IN  [w EXCEPT !.result = IF p = Null THEN NoT ELSE w.box[p].data_]

\* Value() / Value() const
OpValue(w, b) ==
  IF ~w.box[b].is_initialized_
  THEN [w EXCEPT !.raised = "BadOptionalAccess"]
  ELSE [w EXCEPT !.result = w.box[w.box[b].value_ptr_].data_]

\* Variant of OpCopyCtor: the members are copied as they are (what a
\* defaulted copy constructor does), so the handle is the source's.
OpCopyCtor_Shallow(w, b, o, t) ==
  [w EXCEPT !.box[b] = [w.box[o] EXCEPT !.live = 0]]

\* Variant of OpCopyCtor: the source is ignored, the new box is empty.
OpCopyCtor_Empty(w, b, o, t) == OpCtorDefault(w, b)

\* Variant of OpCopyCtor: the source's T is moved from instead of copied.
OpCopyCtor_MovesFrom(w, b, o, t) ==
  LET src == w.box[o]
      v == IF src.is_initialized_ THEN OpValue(w, o).result ELSE NoT
      w1 == CtorFromT(w, b, src.is_initialized_, v, t)
  IN  IF src.is_initialized_
      THEN AssignT(w1, src.value_ptr_, Unspecified)
      ELSE w1

OpCopyCtor(w, b, o, t) ==
  LET src == w.box[o]
      v == IF src.is_initialized_ THEN OpValue(w, o).result ELSE NoT
  IN  CtorFromT(w, b, src.is_initialized_, v, t)

\* Variant of OpMoveCtor: the new box takes over the source's handle instead
\* of constructing a T of its own.
OpMoveCtor_Steal(w, b, o, t) ==
  [w EXCEPT !.box[b] = [RawBox EXCEPT
                          !.status = "alive",
                          !.is_initialized_ = w.box[o].is_initialized_,
                          !.value_ptr_ = w.box[o].value_ptr_]]

\* Variant of OpMoveCtor: a destructive move, the source is emptied.
OpMoveCtor_ClearsSource(w, b, o, t) ==
  LET src == w.box[o]
      v == IF src.is_initialized_ THEN OpValue(w, o).result ELSE NoT
      w1 == CtorFromT(w, b, src.is_initialized_, v, t)
  IN  IF src.is_initialized_ /\ ~t.throws
      THEN [DestroyT(w1, src.value_ptr_) EXCEPT
              !.box[o].is_initialized_ = FALSE]
      ELSE w1

OpMoveCtor(w, b, o, t) ==
  LET src == w.box[o]
      v == IF src.is_initialized_ THEN OpValue(w, o).result ELSE NoT
      w1 == CtorFromT(w, b, src.is_initialized_, v, t)
  IN  IF src.is_initialized_
      THEN AssignT(w1, src.value_ptr_, Residue(t, v))
      ELSE w1

\* ---- observers ----

OpHasValue(w, b) == [w EXCEPT !.has = w.box[b].is_initialized_]

\* operator->() and operator->() const return the handle as it is.
OpArrow(w, b) == [w EXCEPT !.ptr = w.box[b].value_ptr_]

\* What evaluating *value_ptr_ on a null value_ptr_ (undefined behaviour) can
\* do: hand back a null reference silently, or stop with a run-time fault
\* (a build with the UB sanitizer the file's header recommends).
UBOutcomes == {"returns", "fault"}

\* Variant of OpDeref: operator* checks presence like Value() does.
OpDeref_Checked(w, b, u) ==
  IF ~w.box[b].is_initialized_
  THEN [w EXCEPT !.raised = "BadOptionalAccess"]
  ELSE [w EXCEPT !.ptr = w.box[b].value_ptr_]

\* operator*() and operator*() const: return *value_ptr_, no check.
OpDeref(w, b, u) ==
  IF w.box[b].value_ptr_ = Null /\ u = "fault"
  THEN [w EXCEPT !.raised = "undefined"]
  ELSE [w EXCEPT !.ptr = w.box[b].value_ptr_]

\* The caller assigns v through the T& that Value() returned.
OpWriteThroughValue(w, b, v) ==
  LET w1 == OpValue(w, b)
  IN  IF w1.raised = "none"
      THEN AssignT(w1, w1.box[b].value_ptr_, v)
      ELSE w1

\* ---- assignment ----

\* Variant of AssignFromT: always constructs in place, also over a live T.
AssignFromT_Reconstruct(w, b, v, t) ==
  IF t.throws
  THEN Throw(w)
  ELSE LET w1 == PlacementNew(w, b, v)
           w2 == [w1 EXCEPT !.box[b].value_ptr_ = b]
       IN  [w2 EXCEPT !.box[b].is_initialized_ = TRUE]

\* Variant of AssignFromT: the empty branch forgets is_initialized_ = true.
AssignFromT_NoFlag(w, b, v, t) ==
  LET me == w.box[b]
  IN  IF me.is_initialized_
      THEN IF t.throws
           THEN Throw(AssignT(w, me.value_ptr_,
                              Residue(t, w.box[me.value_ptr_].data_)))
           ELSE AssignT(w, me.value_ptr_, v)
      ELSE IF t.throws
           THEN Throw(w)
           ELSE LET w1 == PlacementNew(w, b, v)
                IN  [w1 EXCEPT !.box[b].value_ptr_ = b]

\* Variant of AssignFromT: the empty branch sets is_initialized_ before the
\* placement new.
AssignFromT_FlagFirst(w, b, v, t) ==
  LET me == w.box[b]
  IN  IF me.is_initialized_
      THEN IF t.throws
           THEN Throw(AssignT(w, me.value_ptr_,
                              Residue(t, w.box[me.value_ptr_].data_)))
           ELSE AssignT(w, me.value_ptr_, v)
      ELSE LET w0 == [w EXCEPT !.box[b].is_initialized_ = TRUE]
           IN  IF t.throws
               THEN Throw(w0)
               ELSE [PlacementNew(w0, b, v) EXCEPT !.box[b].value_ptr_ = b]

AssignFromT(w, b, v, t) ==
  LET me == w.box[b]
  IN  IF me.is_initialized_
      THEN IF t.throws
           THEN Throw(AssignT(w, me.value_ptr_,
                              Residue(t, w.box[me.value_ptr_].data_)))
           ELSE AssignT(w, me.value_ptr_, v)
      ELSE IF t.throws
           THEN Throw(w)
           ELSE LET w1 == PlacementNew(w, b, v)
                    w2 == [w1 EXCEPT !.box[b].value_ptr_ = b]
                IN  [w2 EXCEPT !.box[b].is_initialized_ = TRUE]

OpCopyAssignValue(w, b, v, t) == AssignFromT(w, b, v, t)

OpMoveAssignValue(w, b, v, t) == AssignFromT(w, b, v, t)

\* Variant of OpCopyAssign: the branch that empties the target is missing.
OpCopyAssign_NoEmpty(w, b, r, t) ==
  LET me == w.box[b]
      rhs == w.box[r]
  IN  IF me.is_initialized_ /\ rhs.is_initialized_
      THEN IF t.throws
           THEN Throw(AssignT(w, me.value_ptr_,
                              Residue(t, w.box[me.value_ptr_].data_)))
           ELSE AssignT(w, me.value_ptr_, w.box[rhs.value_ptr_].data_)
      ELSE IF ~me.is_initialized_ /\ rhs.is_initialized_
      THEN IF t.throws
           THEN Throw(w)
           ELSE LET w1 == PlacementNew(w, b, w.box[rhs.value_ptr_].data_)
                    w2 == [w1 EXCEPT !.box[b].value_ptr_ = b]
                IN  [w2 EXCEPT !.box[b].is_initialized_ = TRUE]
      ELSE w

\* Variant of OpCopyAssign: the target is emptied first and then constructed
\* from the source.
OpCopyAssign_ResetThenCopy(w, b, r, t) ==
  LET me == w.box[b]
      w0 == IF me.is_initialized_
            THEN [DestroyT(w, me.value_ptr_) EXCEPT
                    !.box[b].is_initialized_ = FALSE]
            ELSE w
      rhs == w0.box[r]
  IN  IF ~rhs.is_initialized_
      THEN w0
      ELSE IF t.throws
           THEN Throw(w0)
           ELSE LET w1 == PlacementNew(w0, b, w0.box[rhs.value_ptr_].data_)
                    w2 == [w1 EXCEPT !.box[b].value_ptr_ = b]
                IN  [w2 EXCEPT !.box[b].is_initialized_ = TRUE]

OpCopyAssign(w, b, r, t) ==
  LET me == w.box[b]
      rhs == w.box[r]
  IN  IF me.is_initialized_ /\ rhs.is_initialized_
      THEN IF t.throws
           THEN Throw(AssignT(w, me.value_ptr_,
                              Residue(t, w.box[me.value_ptr_].data_)))
           ELSE AssignT(w, me.value_ptr_, w.box[rhs.value_ptr_].data_)
      ELSE IF ~me.is_initialized_ /\ rhs.is_initialized_
      THEN IF t.throws
           THEN Throw(w)
           ELSE LET w1 == PlacementNew(w, b, w.box[rhs.value_ptr_].data_)
                    w2 == [w1 EXCEPT !.box[b].value_ptr_ = b]
                IN  [w2 EXCEPT !.box[b].is_initialized_ = TRUE]
      ELSE IF me.is_initialized_ /\ ~rhs.is_initialized_
      THEN LET w1 == DestroyT(w, me.value_ptr_)
           IN  [w1 EXCEPT !.box[b].is_initialized_ = FALSE]
      ELSE w

\* Variant of OpMoveAssign: a target that holds a value is destroyed and
\* constructed anew instead of assigned to.
OpMoveAssign_DestroyThenConstruct(w, b, r, t) ==
  LET me == w.box[b]
      rhs == w.box[r]
      v == w.box[rhs.value_ptr_].data_
      w0 == IF me.is_initialized_
            THEN [DestroyT(w, me.value_ptr_) EXCEPT
                    !.box[b].is_initialized_ = FALSE]
            ELSE w
  IN  IF ~rhs.is_initialized_
      THEN w0
      ELSE IF t.throws
           THEN Throw(AssignT(w0, rhs.value_ptr_, Residue(t, v)))
           ELSE LET w1 == PlacementNew(w0, b, v)
                    w2 == [w1 EXCEPT !.box[b].value_ptr_ = b]
                    w3 == [w2 EXCEPT !.box[b].is_initialized_ = TRUE]
                IN  AssignT(w3, rhs.value_ptr_, Residue(t, v))

OpMoveAssign(w, b, r, t) ==
  LET me == w.box[b]
      rhs == w.box[r]
      v == w.box[rhs.value_ptr_].data_
  IN  IF me.is_initialized_ /\ rhs.is_initialized_
      THEN IF t.throws
           THEN Throw(AssignT(AssignT(w, me.value_ptr_,
                                      Residue(t, w.box[me.value_ptr_].data_)),
                              rhs.value_ptr_, Residue(t, v)))
           ELSE AssignT(AssignT(w, me.value_ptr_, v),
                        rhs.value_ptr_, Residue(t, v))
      ELSE IF ~me.is_initialized_ /\ rhs.is_initialized_
      THEN IF t.throws
           THEN Throw(AssignT(w, rhs.value_ptr_, Residue(t, v)))
           ELSE LET w1 == PlacementNew(w, b, v)
                    w2 == [w1 EXCEPT !.box[b].value_ptr_ = b]
                    w3 == [w2 EXCEPT !.box[b].is_initialized_ = TRUE]
                IN  AssignT(w3, rhs.value_ptr_, Residue(t, v))
      ELSE IF me.is_initialized_ /\ ~rhs.is_initialized_
      THEN LET w1 == DestroyT(w, me.value_ptr_)
           IN  [w1 EXCEPT !.box[b].is_initialized_ = FALSE]
      ELSE w

\* ---- Reset and destruction ----

\* Variant of OpReset: is_initialized_ = false is missing.
OpReset_KeepFlag(w, b) ==
  IF w.box[b].is_initialized_
  THEN DestroyT(w, w.box[b].value_ptr_)
  ELSE w

OpReset(w, b) ==
  IF w.box[b].is_initialized_
  THEN LET w1 == DestroyT(w, w.box[b].value_ptr_)
       IN  [w1 EXCEPT !.box[b].is_initialized_ = FALSE]
  ELSE w

\* Variant of OpDestructor: Reset() is not called.
OpDestructor_NoReset(w, b) ==
  [w EXCEPT !.box[b] = [RawBox EXCEPT !.live = w.box[b].live]]

\* ~Optional() calls Reset(); then the members and the storage are released.
OpDestructor(w, b) ==
  LET w1 == OpReset(w, b)
  IN  [w1 EXCEPT !.box[b] = [RawBox EXCEPT !.live = w1.box[b].live]]

\* ---- the state machine ----

\* No box was copied or moved from in the last calls.
NoLink == [kind |-> "none", a |-> 0, b |-> 0, age |-> 0]

CopyCtorOps == {"Optional(const Optional&)"}

MoveOps == {"Optional(Optional&&)", "operator=(Optional&&)"}

\* The calls a link is followed through: a write through the accessor and
\* the destruction of one of its two boxes.
LinkFollowOps == {"Value() = v", "~Optional()"}

NoCall ==
  [op |-> "none", b |-> 0, src |-> 0, arg |-> NoT, pre |-> RawBox,
   preSrc |-> RawBox, dC |-> 0, dD |-> 0, raised |-> "none", result |-> NoT,
   has |-> FALSE, ptr |-> Null, link |-> NoLink,
   runLen |-> 0, runD |-> 0, runPre |-> FALSE]

Init ==
  /\ box = [b \in Boxes |-> RawBox]
  /\ constructed = 0
  /\ destroyed = 0
  /\ last = NoCall

\* One call of operation op on box b (source box src or 0, value argument
\* arg or NoT) that turns the memory into w.  last records the call: the
\* target and the source before it, the T constructions and destructions it
\* performed, what it raised and returned, and the run of consecutive Reset
\* calls on the same box it belongs to.  link names the two boxes of a
\* completed copy construction or move from a box that held a value, for the
\* two writes through Value() or destructions of either of them that
\* directly follow it.
Call(op, b, src, arg, w) ==
  LET dD == w.destroyed - destroyed
      cont == op = "Reset" /\ last.op = "Reset" /\ last.b = b
  IN  /\ w.constructed <= MaxEvents
      /\ w.destroyed <= MaxEvents
      /\ box' = w.box
      /\ constructed' = w.constructed
      /\ destroyed' = w.destroyed
      /\ last' = [op |-> op, b |-> b, src |-> src, arg |-> arg,
                  pre |-> box[b],
                  preSrc |-> IF src = 0 THEN RawBox ELSE box[src],
                  dC |-> w.constructed - constructed,
                  dD |-> dD,
                  raised |-> w.raised,
                  result |-> w.result,
                  has |-> w.has,
                  ptr |-> w.ptr,
                  link |-> IF src \notin {0, b} /\ w.raised = "none"
                              /\ box[src].is_initialized_
                              /\ op \in CopyCtorOps \cup MoveOps
                           THEN [kind |-> IF op \in MoveOps
                                          THEN "move" ELSE "copy",
                                 a |-> src, b |-> b, age |-> 0]
                           ELSE IF last.link.kind # "none"
                                   /\ last.link.age < 2
                                   /\ b \in {last.link.a, last.link.b}
                                   /\ op \in LinkFollowOps
                                THEN [last.link EXCEPT !.age = @ + 1]
                                ELSE NoLink,
                  runLen |-> IF cont THEN last.runLen + 1
                             ELSE IF op = "Reset" THEN 1 ELSE 0,
                  runD |-> IF cont THEN last.runD + dD
                           ELSE IF op = "Reset" THEN dD ELSE 0,
                  runPre |-> IF cont THEN last.runPre
                             ELSE IF op = "Reset"
                                  THEN box[b].is_initialized_ ELSE FALSE]

Alive(b) == box[b].status = "alive"

CtorDefault(b) ==
  /\ ~Alive(b)
  /\ Call("Optional()", b, 0, NoT, OpCtorDefault(World, b))

CtorCopyValue(b) ==
  /\ ~Alive(b)
  /\ \E v \in Values, t \in ConstructBehaviours :
       Call("Optional(const T&)", b, 0, v, OpCtorCopyValue(World, b, v, t))

CtorMoveValue(b) ==
  /\ ~Alive(b)
  /\ \E v \in Values, t \in ConstructBehaviours :
       Call("Optional(T&&)", b, 0, v, OpCtorMoveValue(World, b, v, t))

CopyCtor(b) ==
  /\ ~Alive(b)
  /\ \E o \in Boxes \ {b}, t \in ConstructBehaviours :
       /\ Alive(o)
       /\ Call("Optional(const Optional&)", b, o, NoT,
               OpCopyCtor(World, b, o, t))

MoveCtor(b) ==
  /\ ~Alive(b)
  /\ \E o \in Boxes \ {b}, t \in TBehaviours :
       /\ Alive(o)
       /\ Call("Optional(Optional&&)", b, o, NoT, OpMoveCtor(World, b, o, t))

CopyAssignValue(b) ==
  /\ Alive(b)
  /\ \E v \in Values, t \in AssignBehaviours :
       Call("operator=(const T&)", b, 0, v, OpCopyAssignValue(World, b, v, t))

MoveAssignValue(b) ==
  /\ Alive(b)
  /\ \E v \in Values, t \in AssignBehaviours :
       Call("operator=(T&&)", b, 0, v, OpMoveAssignValue(World, b, v, t))

CopyAssign(b) ==
  /\ Alive(b)
  /\ \E r \in Boxes, t \in AssignBehaviours :
       /\ Alive(r)
       /\ Call("operator=(const Optional&)", b, r, NoT,
               OpCopyAssign(World, b, r, t))

MoveAssign(b) ==
  /\ Alive(b)
  /\ \E r \in Boxes, t \in TBehaviours :
       /\ Alive(r)
       /\ Call("operator=(Optional&&)", b, r, NoT,
               OpMoveAssign(World, b, r, t))

Value(b) ==
  /\ Alive(b)
  /\ Call("Value()", b, 0, NoT, OpValue(World, b))

ValueConst(b) ==
  /\ Alive(b)
  /\ Call("Value() const", b, 0, NoT, OpValue(World, b))

WriteThroughValue(b) ==
  /\ Alive(b)
  /\ \E v \in Values :
       Call("Value() = v", b, 0, v, OpWriteThroughValue(World, b, v))

HasValue(b) ==
  /\ Alive(b)
  /\ Call("HasValue()", b, 0, NoT, OpHasValue(World, b))

Deref(b) ==
  /\ Alive(b)
  /\ \E u \in UBOutcomes :
       Call("operator*()", b, 0, NoT, OpDeref(World, b, u))

DerefConst(b) ==
  /\ Alive(b)
  /\ \E u \in UBOutcomes :
       Call("operator*()", b, 0, NoT, OpDeref(World, b, u))

Arrow(b) ==
  /\ Alive(b)
  /\ Call("operator->()", b, 0, NoT, OpArrow(World, b))

ArrowConst(b) ==
  /\ Alive(b)
  /\ Call("operator->()", b, 0, NoT, OpArrow(World, b))

Reset(b) ==
  /\ Alive(b)
  /\ ~(last.op = "Reset" /\ last.b = b /\ last.runLen >= MaxResetRun)
  /\ Call("Reset", b, 0, NoT, OpReset(World, b))

Destructor(b) ==
  /\ Alive(b)
  /\ Call("~Optional()", b, 0, NoT, OpDestructor(World, b))

Next ==
  \E b \in Boxes :
    \/ CtorDefault(b)
    \/ CtorCopyValue(b)
    \/ CtorMoveValue(b)
    \/ CopyCtor(b)
    \/ MoveCtor(b)
    \/ CopyAssignValue(b)
    \/ MoveAssignValue(b)
    \/ CopyAssign(b)
    \/ MoveAssign(b)
    \/ Value(b)
    \/ ValueConst(b)
    \/ Reset(b)
    \/ Destructor(b)

Spec == Init /\ [][Next]_vars

\* A caller that builds boxes, fills and empties them, and looks at them
\* through the observers.
NextAccess ==
  \E b \in Boxes :
    \/ CtorDefault(b)
    \/ CtorCopyValue(b)
    \/ CopyCtor(b)
    \/ CopyAssignValue(b)
    \/ CopyAssign(b)
    \/ WriteThroughValue(b)
    \/ HasValue(b)
    \/ Deref(b)
    \/ DerefConst(b)
    \/ Arrow(b)
    \/ ArrowConst(b)
    \/ Reset(b)
    \/ Destructor(b)

SpecAccess == Init /\ [][NextAccess]_vars

\* ---- properties ----

ValueAssignOps == {"operator=(const T&)", "operator=(T&&)"}

BoxAssignOps == {"operator=(const Optional&)", "operator=(Optional&&)"}

ValueOps == {"Value()", "Value() const"}

\* What the box's accessors reach: the T that value_ptr_ points at.
Contained(b) == box[box[b].value_ptr_].data_

RECURSIVE SumLive(_)
SumLive(n) == IF n = 0 THEN 0 ELSE box[n].live + SumLive(n - 1)

\* C1: in every reachable state a box's presence flag is true exactly when
\* its storage holds one live T, and no storage ever holds more than one
\* live T (no construction over a live T).
C1_PresenceIffOneLiveT ==
  \A b \in Boxes :
    /\ box[b].live \in {0, 1}
    /\ (box[b].data_ # NoT) <=> (box[b].live = 1)
    /\ Alive(b) => (box[b].is_initialized_ <=> box[b].live = 1)

C1_Witness ==
  \E a, b \in Boxes :
    /\ Alive(a) /\ box[a].is_initialized_ /\ box[a].live = 1
    /\ Alive(b) /\ ~box[b].is_initialized_ /\ box[b].live = 0
    /\ last.op \in ValueAssignOps /\ last.b = a /\ last.pre.is_initialized_
    /\ constructed >= 2

\* C2: constructions and destructions stay paired: the T's constructed and
\* not yet destroyed are exactly the ones living in boxes that exist, no T is
\* destroyed that was not constructed, and once every box is destroyed the
\* number of constructions equals the number of destructions.
C2_ConstructionsEqualDestructions ==
  /\ \A b \in Boxes : box[b].live >= 0 /\ (~Alive(b) => box[b].live = 0)
  /\ constructed - destroyed = SumLive(NumBoxes)
  /\ (\A b \in Boxes : ~Alive(b)) => constructed = destroyed

C2_Witness ==
  /\ \A b \in Boxes : ~Alive(b)
  /\ last.op = "~Optional()"
  /\ last.dD = 1
  /\ constructed >= 2

\* C3: Value(), mutable or const, raises BadOptionalAccess and returns
\* nothing on an empty box, returns the contained value without raising on a
\* present box, and leaves every box and the lifetime counts unchanged.
C3_ValueChecksPresence ==
  [][last'.op \in ValueOps =>
       /\ IF box[last'.b].is_initialized_
          THEN last'.raised = "none" /\ last'.result = Contained(last'.b)
          ELSE last'.raised = "BadOptionalAccess" /\ last'.result = NoT
       /\ UNCHANGED <<box, constructed, destroyed>>]_vars

C3_Witness ==
  /\ last.op = "Value() const"
  /\ last.raised = "BadOptionalAccess"
  /\ last.pre = [RawBox EXCEPT !.status = "alive"]
  /\ box[last.b] = last.pre

\* C4: an assignment from another box that completes, by copy or by move,
\* leaves the target with the presence the source had before, and when the
\* source was present with a value equal to the source's value before.
C4_BoxAssignReplicatesSource ==
  (last.op \in BoxAssignOps /\ last.src # last.b /\ last.raised = "none") =>
     /\ box[last.b].is_initialized_ = last.preSrc.is_initialized_
     /\ last.preSrc.is_initialized_ => Contained(last.b) = last.preSrc.data_

C4_Witness ==
  /\ last.op = "operator=(const Optional&)"
  /\ last.src # last.b
  /\ last.pre.is_initialized_
  /\ ~last.preSrc.is_initialized_
  /\ ~box[last.b].is_initialized_

\* C5: an assignment of a bare value V that completes, by copy or by move,
\* leaves the box present and holding V, whatever the box held before.
C5_ValueAssignNeverEmpties ==
  (last.op \in ValueAssignOps /\ last.raised = "none") =>
     /\ box[last.b].is_initialized_
     /\ Contained(last.b) = last.arg

C5_Witness ==
  /\ last.op = "operator=(T&&)"
  /\ last.raised = "none"
  /\ ~last.pre.is_initialized_
  /\ last.pre.value_ptr_ # Null
  /\ box[last.b].is_initialized_

\* C6: the assignment operators perform exactly the lifetime events of the
\* assignment table: none when the target holds a value and is assigned a
\* value or a present box, one destruction of the contained T when it is
\* assigned an empty box, none for empty from empty, and one in-place
\* construction when an empty target is assigned a value or a present box
\* (none when that construction throws).
C6_AssignmentLifetimeEvents ==
  (last.op \in ValueAssignOps \cup BoxAssignOps) =>
     LET srcPresent == last.op \in ValueAssignOps \/ last.preSrc.is_initialized_
     IN  /\ (last.pre.is_initialized_ /\ srcPresent) =>
              last.dC = 0 /\ last.dD = 0
         /\ (last.pre.is_initialized_ /\ ~srcPresent) =>
              /\ last.dC = 0 /\ last.dD = 1
              /\ box[last.b].live = last.pre.live - 1
         /\ (~last.pre.is_initialized_ /\ ~srcPresent) =>
              last.dC = 0 /\ last.dD = 0
         /\ (~last.pre.is_initialized_ /\ srcPresent) =>
              /\ last.dC = (IF last.raised = "none" THEN 1 ELSE 0)
              /\ last.dD = 0
              /\ box[last.b].live = last.pre.live + last.dC

C6_Witness ==
  /\ last.op = "operator=(Optional&&)"
  /\ last.src # last.b
  /\ last.pre.is_initialized_
  /\ last.preSrc.is_initialized_
  /\ last.raised = "none"
  /\ last.dC = 0 /\ last.dD = 0

\* C7: Reset() leaves the box empty; a Reset() right after a Reset() of the
\* same box changes neither the state nor the destruction count; and a run
\* of consecutive Reset() calls destroys the contained T once if the box was
\* present before the run and never otherwise.
C7_ResetIdempotent ==
  [][last'.op = "Reset" =>
       /\ ~box'[last'.b].is_initialized_
       /\ last'.runD = (IF last'.runPre THEN 1 ELSE 0)
       /\ (last.op = "Reset" /\ last.b = last'.b) =>
             UNCHANGED <<box, constructed, destroyed>>]_vars

C7_Witness ==
  /\ last.op = "Reset"
  /\ last.runLen >= 2
  /\ last.runPre
  /\ last.runD = 1

\* C8: when T's copy constructor throws during box copy-construction, the
\* new box's presence flag is false.
C8_FailedCopyCtorLeavesFlagFalse ==
  (last.op = "Optional(const Optional&)" /\ last.raised = "T") =>
     ~box[last.b].is_initialized_

\* C9: when an assignment operator fails because T throws, an empty target
\* is still empty and holds no T, and a target that held a value still has
\* its presence flag set and its T alive.
C9_FailedAssignKeepsPresence ==
  (last.op \in ValueAssignOps \cup BoxAssignOps /\ last.raised = "T") =>
     /\ box[last.b].is_initialized_ = last.pre.is_initialized_
     /\ box[last.b].live = last.pre.live
     /\ ~last.pre.is_initialized_ => box[last.b].data_ = NoT
     /\ last.pre.is_initialized_ => box[last.b].data_ # NoT

C9_Witness ==
  /\ last.op = "operator=(const T&)"
  /\ last.raised = "T"
  /\ ~last.pre.is_initialized_
  /\ ~box[last.b].is_initialized_

\* C10: the handle value_ptr_ agrees with the presence flag: it points into
\* the box's own storage exactly when the flag is true and is null whenever
\* the flag is false.
C10_HandleAgreesWithFlag ==
  \A b \in Boxes :
    Alive(b) =>
      /\ box[b].is_initialized_ <=> box[b].value_ptr_ = b
      /\ ~box[b].is_initialized_ => box[b].value_ptr_ = Null

ObserverOps == {"HasValue()", "operator*()", "operator->()"}

ValueCtorOps == {"Optional(const T&)", "Optional(T&&)"}

BoxCtorOps == {"Optional(const Optional&)", "Optional(Optional&&)"}

CopyOps == {"Optional(const Optional&)", "operator=(const Optional&)"}

\* C11: value independence: a call changes no box other than its target
\* (and the box a move takes from), so after copy-constructing B2 from B1 a
\* write through B1's accessor, an assignment to B1, Reset or destruction of
\* B1 leaves B2 as it was, and vice versa; and the handle of a present box
\* always points into that box's own storage.
C11_ValueIndependence ==
  [][/\ \A c \in Boxes :
          (c # last'.b /\ ~(last'.op \in MoveOps /\ c = last'.src)) =>
             box'[c] = box[c]
     /\ \A c \in Boxes :
          (box'[c].status = "alive" /\ box'[c].is_initialized_) =>
             box'[c].value_ptr_ = c]_vars

C11_Witness ==
  /\ last.link.kind = "copy"
  /\ last.link.age = 1
  /\ last.op = "Value() = v"
  /\ last.b = last.link.a
  /\ last.raised = "none"
  /\ box[last.link.b].is_initialized_
  /\ box[last.link.b].data_ = last.pre.data_
  /\ box[last.link.b].data_ # box[last.b].data_

\* C12: destroying a box destroys the T in its own storage exactly once when
\* the box is present and nothing otherwise, and touches no other box's T;
\* so after a move from a present A into B, destroying A and B destroys each
\* one's T exactly once and none twice.
C12_DestructionAfterMove ==
  [][last'.op = "~Optional()" =>
       LET b == last'.b
           mine == IF box[b].is_initialized_ THEN 1 ELSE 0
       IN  /\ destroyed' - destroyed = mine
           /\ box[b].live = mine
           /\ box'[b].live = 0
           /\ \A c \in Boxes \ {b} :
                /\ box'[c].live = box[c].live
                /\ box'[c].is_initialized_ = box[c].is_initialized_]_vars

C12_Witness ==
  /\ last.link.kind = "move"
  /\ last.link.age = 2
  /\ last.op = "~Optional()"
  /\ last.dD = 1
  /\ ~Alive(last.link.a)
  /\ ~Alive(last.link.b)
  /\ destroyed = 2
  /\ constructed = 2

\* C13: a completed copy- or move-construction from a box yields a box with
\* the presence the source had: from a present source a present box holding
\* an equal value, built by exactly one in-place construction; from an empty
\* source an empty box with no T constructed.
C13_BoxCtorReplicatesSource ==
  (last.op \in BoxCtorOps /\ last.raised = "none") =>
     /\ Alive(last.b)
     /\ box[last.b].is_initialized_ = last.preSrc.is_initialized_
     /\ last.dD = 0
     /\ last.preSrc.is_initialized_ =>
          /\ Contained(last.b) = last.preSrc.data_
          /\ last.dC = 1
          /\ box[last.b].live = 1
     /\ ~last.preSrc.is_initialized_ =>
          /\ last.dC = 0
          /\ box[last.b].live = 0
          /\ box[last.b].data_ = NoT

C13_Witness ==
  /\ last.op = "Optional(const Optional&)"
  /\ last.raised = "none"
  /\ last.preSrc.is_initialized_
  /\ box[last.b].is_initialized_
  /\ box[last.b].data_ = last.preSrc.data_
  /\ last.dC = 1

\* C14: a box constructed from a value v, by copy or by move, is present,
\* Value() returns v, and exactly one T was constructed in its storage.
C14_ValueCtorHoldsValue ==
  (last.op \in ValueCtorOps /\ last.raised = "none") =>
     /\ Alive(last.b)
     /\ OpHasValue(World, last.b).has
     /\ OpValue(World, last.b).raised = "none"
     /\ OpValue(World, last.b).result = last.arg
     /\ last.dC = 1
     /\ last.dD = 0
     /\ box[last.b].live = 1

C14_Witness ==
  /\ last.op = "Optional(T&&)"
  /\ last.raised = "none"
  /\ box[last.b].is_initialized_
  /\ box[last.b].data_ = last.arg
  /\ last.dC = 1

C16_MoveKeepsSourceFlag ==
  (last.op \in MoveOps) =>
     /\ box[last.src].is_initialized_ = last.preSrc.is_initialized_
     /\ box[last.src].live = last.preSrc.live
     /\ last.preSrc.is_initialized_ => box[last.src].data_ # NoT
     /\ ~last.preSrc.is_initialized_ => box[last.src].data_ = NoT
     /\ (last.preSrc.is_initialized_ /\ last.raised = "none") =>
          box[last.b].is_initialized_

C16_Witness ==
  /\ last.op = "Optional(Optional&&)"
  /\ last.raised = "none"
  /\ last.preSrc.is_initialized_
  /\ box[last.src].is_initialized_
  /\ box[last.src].data_ = Unspecified
  /\ last.preSrc.data_ # Unspecified
  /\ box[last.b].is_initialized_

\* C17: a copy-construction or copy-assignment from another box leaves the
\* source unchanged, whatever target and source hold and whether or not T
\* throws: same presence, same value, no T constructed or destroyed in it.
C17_CopyKeepsSource ==
  (last.op \in CopyOps /\ last.src # last.b) =>
     box[last.src] = last.preSrc

C17_Witness ==
  /\ last.op = "Optional(const Optional&)"
  /\ last.raised = "none"
  /\ last.preSrc.is_initialized_
  /\ box[last.src] = last.preSrc
  /\ box[last.b].is_initialized_

\* C18: copy self-assignment b = b performs no construction and no
\* destruction and keeps the presence flag, and when it completes the box is
\* exactly as before, for an empty and for a present box.
C18_CopySelfAssignNoOp ==
  (last.op = "operator=(const Optional&)" /\ last.src = last.b) =>
     /\ box[last.b].is_initialized_ = last.pre.is_initialized_
     /\ box[last.b].live = last.pre.live
     /\ last.dC = 0 /\ last.dD = 0
     /\ last.raised = "none" => box[last.b] = last.pre

C18_Witness ==
  /\ last.op = "operator=(const Optional&)"
  /\ last.src = last.b
  /\ last.pre.is_initialized_
  /\ last.raised = "none"
  /\ box[last.b] = last.pre

====
